---- MODULE Spec2Model ----
(***************************************************************************)
(* bufhash: PartitionedHasher<N, H>, the adapter of src/src/partitioned.rs *)
(* that drives a partitioned hasher H: Hasher<N> from a byte stream        *)
(* written in slices of any length.                                        *)
(*                                                                         *)
(* The adapter is generic in the partition size N and in the hasher H.     *)
(* Init chooses the instantiation: either the hasher `Simple` (N = 8) of   *)
(* the crate's tests and documentation, or, for N in 1..MaxN, the trait    *)
(* Hasher<N> itself, modelled by its most general implementation: its      *)
(* state is the sequence of partitions it was given and its digest is the  *)
(* pair of that state and the tail, so that any two runs a deterministic   *)
(* implementation of the trait could tell apart are told apart here.       *)
(*                                                                         *)
(* write() is modelled statement group by statement group (pc), so that    *)
(* the states inside a call are states of the model.                       *)
(***************************************************************************)
EXTENDS Integers, Sequences, FiniteSets, TLC

\* ---------------------------------------------------------------- bounds
MaxN == 3          \* partition sizes 1..MaxN for the generic hasher
MaxLen == 5        \* longest logical stream fed to the generic hasher
MaxEmpty == 1      \* number of empty-slice writes per run
MaxFinish == 2     \* number of finish() calls between two writes

\* byte values used in the streams of the generic instantiation
ByteVals == {1, 255}

\* ----------------------------------------------------------- sequences
Take(s, n) == SubSeq(s, 1, n)
Drop(s, n) == SubSeq(s, n + 1, Len(s))

RECURSIVE SeqsOfLen(_, _)
SeqsOfLen(S, n) ==
  IF n = 0 THEN {<<>>}
  ELSE {Append(s, b) : s \in SeqsOfLen(S, n - 1), b \in S}

SeqsUpTo(S, n) == UNION {SeqsOfLen(S, k) : k \in 0..n}

\* ------------------------------------------------- u64 (tests::Simple)
\* A u64 is four 16-bit limbs, most significant first, as the literal
\* 0xE405_8DED_8D8C_A900 of the tests is written.
Limb == 65536

\* Default for u64 (#[derive(Default)] on Simple(u64))
u64_default == <<0, 0, 0, 0>>

\* the bytes read most significant first (u64::from_be_bytes)
from_be_bytes(b) ==
  << (b[1] * 256) + b[2], (b[3] * 256) + b[4],
     (b[5] * 256) + b[6], (b[7] * 256) + b[8] >>

\* u64::from_le_bytes: b[1] is the least significant byte
from_le_bytes(b) ==
  << (b[8] * 256) + b[7], (b[6] * 256) + b[5],
     (b[4] * 256) + b[3], (b[2] * 256) + b[1] >>

\* u64::wrapping_add: the carry out of the top limb is dropped
wrapping_add(x, y) ==
  LET s4 == x[4] + y[4]
      s3 == x[3] + y[3] + (s4 \div Limb)
      s2 == x[2] + y[2] + (s3 \div Limb)
      s1 == x[1] + y[1] + (s2 \div Limb)
  IN  << s1 % Limb, s2 % Limb, s3 % Limb, s4 % Limb >>

\* x << 1 on 64 bits
shl1(x) ==
  << ((x[1] * 2) % Limb) + ((x[2] * 2) \div Limb),
     ((x[2] * 2) % Limb) + ((x[3] * 2) \div Limb),
     ((x[3] * 2) % Limb) + ((x[4] * 2) \div Limb),
     (x[4] * 2) % Limb >>

\* x << k for 0 <= k < 64
RECURSIVE shl(_, _)
shl(x, k) == IF k = 0 THEN x ELSE shl(shl1(x), k - 1)

\* the value a panicking call "returns"
Panicked == "panic"

\* tests::Simple::write (also crate docs)
Simple_write(h, part) == wrapping_add(h, from_le_bytes(part))

\* Simple::finish returning the sum unshifted
Simple_finish_noshift(h, tail) == h

\* tests::Simple::finish: self.0 << bytes.len(); a shift by 64 or more
\* overflows (a panic in the build the tests run under)
Simple_finish(h, tail) ==
  IF Len(tail) >= 64 THEN Panicked ELSE shl(h, Len(tail))

\* ------------------------------------------------------------- results
\* what a call of finish() gave: nothing yet, a u64 digest, or a panic
NoResult == [kind |-> "none"]
Returned(v) == [kind |-> "value", value |-> v]
Panic == [kind |-> "panic"]

\* ------------------------------------------------------ the instantiation
VARIABLES
  N,         \* const N: usize, the partition size
  H          \* the hasher type: "Simple" or "Generic"

\* partition size of `impl Hasher<8> for Simple`
SimpleN == 8

Instantiations ==
  {[N |-> n, H |-> "Generic"] : n \in 1..MaxN} \cup {[N |-> SimpleN, H |-> "Simple"]}

\* H::default() / the initial state handed to new()
Hasher_default(h) == IF h = "Simple" THEN u64_default ELSE <<>>

\* Hasher<N>::write(&mut self, bytes: &[u8; N]): the new hasher state
Hasher_write(h, part) ==
  IF H = "Simple" THEN Simple_write(h, part) ELSE Append(h, part)

\* Hasher<N>::finish(&self, bytes: &[u8]) -> u64
Hasher_finish(h, tail) ==
  IF H = "Simple"
    THEN LET v == Simple_finish(h, tail)
         IN  IF v = Panicked THEN Panic ELSE Returned(v)
    ELSE Returned(<<h, tail>>)

\* ------------------------------------------------------------ the adapter
VARIABLES
  hasher,    \* self.hasher
  buffer,    \* self.buffer, the carry buffer
  bytes,     \* write(): the local cursor `bytes`
  borrowed,  \* write(): the local `borrowed`
  pc,        \* position of the running call, "idle" between calls
  calls,     \* history: the partitions passed to Hasher::write, in order
  result,    \* what the last finish() returned
  input,     \* the logical stream the caller is going to write
  pos,       \* number of bytes of input handed to write() so far
  arg,       \* the slice the last write() was called with
  nwrites,   \* history: number of write() calls
  nempty,    \* history: number of write() calls with an empty slice
  nfinish,   \* history: number of finish() calls since the last write()
  capacity,  \* self.buffer.capacity()
  tails,     \* history: the tails passed to Hasher::finish since the last write()
  entry      \* history: self.buffer, self.hasher and the number of
             \* Hasher::write calls made, as the last write() was entered

vars == <<N, H, hasher, buffer, bytes, borrowed, pc, calls, result,
          input, pos, arg, nwrites, nempty, nfinish, capacity, tails, entry>>

\* new() with vec![0; N] in place of Vec::with_capacity(N)
new_zeroed(h) ==
  [hasher |-> h, buffer |-> [i \in 1..N |-> 0], capacity |-> N,
   bytes |-> <<>>, borrowed |-> <<>>, pc |-> "idle", calls |-> <<>>]

\* new() with Vec::new() in place of Vec::with_capacity(N)
new_nocapacity(h) ==
  [hasher |-> h, buffer |-> <<>>, capacity |-> 0,
   bytes |-> <<>>, borrowed |-> <<>>, pc |-> "idle", calls |-> <<>>]

\* PartitionedHasher::new(hasher): buffer = Vec::with_capacity(N), empty
new(h) ==
  [hasher |-> h, buffer |-> <<>>, capacity |-> N,
   bytes |-> <<>>, borrowed |-> <<>>, pc |-> "idle", calls |-> <<>>]

\* Default::default() with vec![0; N] in place of Vec::with_capacity(N)
default_zeroed ==
  [hasher |-> Hasher_default(H), buffer |-> [i \in 1..N |-> 0],
   capacity |-> N, bytes |-> <<>>, borrowed |-> <<>>, pc |-> "idle",
   calls |-> <<>>]

\* PartitionedHasher::default(): hasher = Default::default(),
\* buffer = Vec::with_capacity(N)
default ==
  [hasher |-> Hasher_default(H), buffer |-> <<>>, capacity |-> N,
   bytes |-> <<>>, borrowed |-> <<>>, pc |-> "idle", calls |-> <<>>]

\* Vec::extend_from_slice as write() uses it on self.buffer: the bytes are
\* appended; the vector reallocates only when they do not fit, to at least
\* twice its capacity
extend_from_slice(st, b) ==
  LET len == Len(st.buffer) + Len(b)
  IN  [st EXCEPT !.buffer = st.buffer \o b,
                 !.capacity = IF len <= st.capacity THEN st.capacity
                              ELSE IF len > 2 * st.capacity THEN len
                              ELSE 2 * st.capacity]

\* write(), entry: let mut bytes = bytes;
write_enter(self, slice) ==
  [self EXCEPT !.bytes = slice, !.borrowed = <<>>, !.pc = "drain"]

\* write(), return: the locals go out of scope
write_return(st) ==
  [st EXCEPT !.bytes = <<>>, !.borrowed = <<>>, !.pc = "idle"]

\* write_drain borrowing the whole slice instead of bytes.get(..needed)
write_drain_all(st) ==
  IF st.buffer = <<>>
    THEN [st EXCEPT !.pc = "emit"]
    ELSE [extend_from_slice(st, st.bytes) EXCEPT !.borrowed = st.bytes,
                                                 !.pc = "check"]

\* write_drain putting the borrowed bytes in front of the carry
write_drain_prepend(st) ==
  IF st.buffer = <<>>
    THEN [st EXCEPT !.pc = "emit"]
    ELSE LET needed == N - Len(st.buffer)
             b == IF needed <= Len(st.bytes)
                    THEN Take(st.bytes, needed)
                    ELSE st.bytes
         IN  [st EXCEPT !.buffer = b \o st.buffer, !.borrowed = b,
                        !.pc = "check"]

\* write_drain overwriting the carry with the borrowed bytes
write_drain_replace(st) ==
  IF st.buffer = <<>>
    THEN [st EXCEPT !.pc = "emit"]
    ELSE LET needed == N - Len(st.buffer)
             b == IF needed <= Len(st.bytes)
                    THEN Take(st.bytes, needed)
                    ELSE st.bytes
         IN  [st EXCEPT !.buffer = b, !.borrowed = b, !.pc = "check"]

\* write() (1), lines 80-84: if the buffer is non-empty, borrow from the
\* front of bytes what the buffer needs and append it
write_drain(st) ==
  IF st.buffer = <<>>
    THEN [st EXCEPT !.pc = "emit"]
    ELSE IF Len(st.buffer) > N
      THEN [st EXCEPT !.pc = "panic"]                \* N - len underflows
      ELSE LET needed == N - Len(st.buffer)
               b == IF needed <= Len(st.bytes)
                      THEN Take(st.bytes, needed)    \* bytes.get(..needed)
                      ELSE st.bytes                  \* .unwrap_or(bytes)
           IN  [extend_from_slice(st, b) EXCEPT !.borrowed = b,
                                                !.pc = "check"]

\* write_check without the early return
write_check_noreturn(st) == [st EXCEPT !.pc = "flush"]

\* write_check that fills a short buffer up with zeros and goes on to
\* flush it instead of returning
write_check_pad(st) ==
  [st EXCEPT !.buffer = st.buffer \o [i \in 1..(N - Len(st.buffer)) |-> 0],
             !.pc = "flush"]

\* write() (1), lines 88-90: return if the buffer is not full
write_check(st) ==
  IF Len(st.buffer) # N
    THEN write_return(st)
    ELSE [st EXCEPT !.pc = "flush"]

\* write_flush without line 99: the cursor is not advanced
write_flush_noadvance(st) ==
  IF Len(st.buffer) < N
    THEN [st EXCEPT !.pc = "panic"]
    ELSE [st EXCEPT !.hasher = Hasher_write(st.hasher, Take(st.buffer, N)),
                    !.calls = Append(st.calls, Take(st.buffer, N)),
                    !.buffer = <<>>,
                    !.pc = "emit"]

\* write_flush advancing the cursor one byte too far
write_flush_offbyone(st) ==
  IF Len(st.buffer) < N \/ Len(st.borrowed) + 1 > Len(st.bytes)
    THEN [st EXCEPT !.pc = "panic"]
    ELSE [st EXCEPT !.hasher = Hasher_write(st.hasher, Take(st.buffer, N)),
                    !.calls = Append(st.calls, Take(st.buffer, N)),
                    !.buffer = <<>>,
                    !.bytes = Drop(st.bytes, Len(st.borrowed) + 1),
                    !.pc = "emit"]

\* write_flush without self.buffer.clear()
write_flush_noclear(st) ==
  IF Len(st.buffer) < N
    THEN [st EXCEPT !.pc = "panic"]
    ELSE IF Len(st.borrowed) > Len(st.bytes)
      THEN [st EXCEPT !.pc = "panic"]
      ELSE [st EXCEPT !.hasher = Hasher_write(st.hasher, Take(st.buffer, N)),
                      !.calls = Append(st.calls, Take(st.buffer, N)),
                      !.bytes = Drop(st.bytes, Len(st.borrowed)),
                      !.pc = "emit"]

\* write() (1), lines 92-99: hand the full buffer to the hasher, clear it,
\* advance bytes past what was borrowed
write_flush(st) ==
  IF Len(st.buffer) < N
    THEN [st EXCEPT !.pc = "panic"]                  \* &self.buffer[..N]
    ELSE IF Len(st.borrowed) > Len(st.bytes)
      THEN [st EXCEPT !.pc = "panic"]                \* &bytes[borrowed.len()..]
      ELSE [st EXCEPT !.hasher = Hasher_write(st.hasher, Take(st.buffer, N)),
                      !.calls = Append(st.calls, Take(st.buffer, N)),
                      !.buffer = <<>>,
                      !.bytes = Drop(st.bytes, Len(st.borrowed)),
                      !.pc = "emit"]

\* write_emit splitting one byte early: the partition's last byte is
\* handed over again with the next one
write_emit_overlap(st) ==
  IF Len(st.bytes) >= N
    THEN [st EXCEPT !.hasher = Hasher_write(st.hasher, Take(st.bytes, N)),
                    !.calls = Append(st.calls, Take(st.bytes, N)),
                    !.bytes = Drop(st.bytes, N - 1)]
    ELSE [st EXCEPT !.pc = "rest"]

\* write_emit looping while bytes.len() > N
write_emit_gt(st) ==
  IF Len(st.bytes) > N
    THEN [st EXCEPT !.hasher = Hasher_write(st.hasher, Take(st.bytes, N)),
                    !.calls = Append(st.calls, Take(st.bytes, N)),
                    !.bytes = Drop(st.bytes, N)]
    ELSE [st EXCEPT !.pc = "rest"]

\* write_emit without `bytes = remaining`
write_emit_noadvance(st) ==
  IF Len(st.bytes) >= N
    THEN [st EXCEPT !.hasher = Hasher_write(st.hasher, Take(st.bytes, N)),
                    !.calls = Append(st.calls, Take(st.bytes, N))]
    ELSE [st EXCEPT !.pc = "rest"]

\* write() (2), lines 103-110: one evaluation of the loop condition and,
\* if it holds, one iteration
write_emit(st) ==
  IF Len(st.bytes) >= N
    THEN LET chunk == Take(st.bytes, N)              \* bytes.split_at(N)
             remaining == Drop(st.bytes, N)
         IN  IF Len(chunk) # N
               THEN [st EXCEPT !.pc = "panic"]       \* try_into().unwrap()
               ELSE [st EXCEPT !.hasher = Hasher_write(st.hasher, chunk),
                               !.calls = Append(st.calls, chunk),
                               !.bytes = remaining]
    ELSE [st EXCEPT !.pc = "rest"]

\* write() (3), lines 113-116: keep the remaining bytes for the next write
write_rest(st) ==
  IF st.bytes # <<>>
    THEN write_return(extend_from_slice(st, st.bytes))
    ELSE write_return(st)

\* one step of a running write()
write_step(st) ==
  CASE st.pc = "drain" -> write_drain(st)
    [] st.pc = "check" -> write_check(st)
    [] st.pc = "flush" -> write_flush(st)
    [] st.pc = "emit"  -> write_emit(st)
    [] st.pc = "rest"  -> write_rest(st)

\* a write() call from entry to return (or panic)
RECURSIVE write_run(_)
write_run(st) ==
  IF st.pc \in {"idle", "panic"} THEN st ELSE write_run(write_step(st))

write(self, slice) == write_run(write_enter(self, slice))

\* finish() handing over the buffer filled up to N bytes with zeros
finish_tail_padded(self) ==
  self.buffer \o [i \in 1..(N - Len(self.buffer)) |-> 0]

\* finish(): the tail handed to the hasher, &self.buffer
finish_tail(self) == self.buffer

\* finish(): self.hasher.finish(&self.buffer)
finish(self) == Hasher_finish(self.hasher, finish_tail(self))

\* ------------------------------------------------------------ the streams
\* b"Hello, world!"
Hello == <<72, 101, 108, 108, 111, 44, 32, 119, 111, 114, 108, 100, 33>>

\* a second stream for Simple: two full partitions whose sum wraps, and a tail
HelloWrap == Hello \o <<255, 255, 255, 255>>

Inputs(h) ==
  IF h = "Simple" THEN {Hello, HelloWrap} ELSE SeqsUpTo(ByteVals, MaxLen)

\* ------------------------------------------------------------ the machine
Self ==
  [hasher |-> hasher, buffer |-> buffer, capacity |-> capacity,
   bytes |-> bytes, borrowed |-> borrowed, pc |-> pc, calls |-> calls]

Becomes(st) ==
  /\ hasher' = st.hasher
  /\ buffer' = st.buffer
  /\ capacity' = st.capacity
  /\ bytes' = st.bytes
  /\ borrowed' = st.borrowed
  /\ pc' = st.pc
  /\ calls' = st.calls

\* the state of the adapter as write() is entered
Snapshot(self) ==
  [buffer |-> self.buffer, hasher |-> self.hasher, ncalls |-> Len(self.calls)]

\* the adapter is the value `self` a constructor returned, and the caller
\* has called nothing yet
Constructed(self) ==
  /\ hasher = self.hasher
  /\ buffer = self.buffer
  /\ capacity = self.capacity
  /\ bytes = self.bytes
  /\ borrowed = self.borrowed
  /\ pc = self.pc
  /\ calls = self.calls
  /\ entry = Snapshot(self)
  /\ result = NoResult
  /\ pos = 0
  /\ arg = <<>>
  /\ nwrites = 0
  /\ nempty = 0
  /\ nfinish = 0
  /\ tails = <<>>

Init ==
  \E i \in Instantiations :
    /\ N = i.N
    /\ H = i.H
    /\ input \in Inputs(i.H)
    /\ Constructed(new(Hasher_default(i.H)))

\* the adapter is made by PartitionedHasher::default()
InitDefault ==
  \E i \in Instantiations :
    /\ N = i.N
    /\ H = i.H
    /\ input \in Inputs(i.H)
    /\ Constructed(default)

\* the caller calls write() with the next k bytes of the stream
WriteCall(k) ==
  /\ pc = "idle"
  /\ k = 0 => nempty < MaxEmpty
  /\ Becomes(write_enter(Self, SubSeq(input, pos + 1, pos + k)))
  /\ arg' = SubSeq(input, pos + 1, pos + k)
  /\ pos' = pos + k
  /\ nwrites' = nwrites + 1
  /\ nempty' = IF k = 0 THEN nempty + 1 ELSE nempty
  /\ nfinish' = 0
  /\ tails' = <<>>
  /\ entry' = Snapshot(Self)
  /\ UNCHANGED <<N, H, input, result>>

\* what a step of a running write() leaves alone
CallerUnchanged ==
  UNCHANGED <<N, H, result, input, pos, arg, nwrites, nempty, nfinish,
              tails, entry>>

Drain == pc = "drain" /\ Becomes(write_drain(Self)) /\ CallerUnchanged

Check == pc = "check" /\ Becomes(write_check(Self)) /\ CallerUnchanged

Flush == pc = "flush" /\ Becomes(write_flush(Self)) /\ CallerUnchanged

Emit == pc = "emit" /\ Becomes(write_emit(Self)) /\ CallerUnchanged

Rest == pc = "rest" /\ Becomes(write_rest(Self)) /\ CallerUnchanged

\* finish() that takes the buffer, leaving it empty
Finish_clearing ==
  /\ pc = "idle"
  /\ nfinish < MaxFinish
  /\ result' = finish(Self)
  /\ tails' = Append(tails, finish_tail(Self))
  /\ buffer' = <<>>
  /\ nfinish' = nfinish + 1
  /\ UNCHANGED <<N, H, hasher, capacity, bytes, borrowed, pc, calls,
                 input, pos, arg, nwrites, nempty, entry>>

\* finish() that folds the zero-padded tail into the hasher's state
Finish_folding ==
  /\ pc = "idle"
  /\ nfinish < MaxFinish
  /\ result' = finish(Self)
  /\ tails' = Append(tails, finish_tail(Self))
  /\ hasher' = Hasher_write(hasher, buffer \o [i \in 1..(N - Len(buffer)) |-> 0])
  /\ nfinish' = nfinish + 1
  /\ UNCHANGED <<N, H, buffer, capacity, bytes, borrowed, pc, calls,
                 input, pos, arg, nwrites, nempty, entry>>

\* the caller calls finish()
Finish ==
  /\ pc = "idle"
  /\ nfinish < MaxFinish
  /\ result' = finish(Self)
  /\ tails' = Append(tails, finish_tail(Self))
  /\ pc' = IF result'.kind = "panic" THEN "panic" ELSE pc
  /\ nfinish' = nfinish + 1
  /\ UNCHANGED <<N, H, hasher, buffer, capacity, bytes, borrowed, calls,
                 input, pos, arg, nwrites, nempty, entry>>

Next ==
  \/ \E k \in 0..(Len(input) - pos) : WriteCall(k)
  \/ Drain
  \/ Check
  \/ Flush
  \/ Emit
  \/ Rest
  \/ Finish

Spec == Init /\ [][Next]_vars

SpecDefault == InitDefault /\ [][Next]_vars

\* a call of write() runs to its return: it is sequential code that waits
\* for nothing, so the step it is at is eventually taken
FairSpec ==
  /\ Spec
  /\ WF_vars(Drain)
  /\ WF_vars(Check)
  /\ WF_vars(Flush)
  /\ WF_vars(Emit)
  /\ WF_vars(Rest)

TypeOK ==
  /\ pc \in {"idle", "drain", "check", "flush", "emit", "rest", "panic"}
  /\ pos \in 0..Len(input)

\* ------------------------------------------------------------ properties
\* the part of the stream written so far
Written == Take(input, pos)

\* a fresh adapter fed the stream written so far in one write() call
Mono == write(new(Hasher_default(H)), Written)

\* C1 (split-invariance): whatever the split of the stream into write()
\* calls, finish() returns what a fresh adapter returns after one write()
\* of the whole stream written so far.
SplitInvariance ==
  (pc = "idle" /\ nfinish > 0) => result = finish(Mono)

\* a stream of at least two partitions and a tail, written in three or more
\* non-empty slices to the generic hasher, then finished
SplitInvarianceWitness ==
  /\ pc = "idle" /\ nfinish > 0 /\ H = "Generic" /\ N >= 2
  /\ pos = Len(input) /\ pos > 2 * N /\ pos % N # 0
  /\ nwrites - nempty >= 3
  /\ result = finish(Mono)

\* the i-th partition of stream B, i from 1
Partition(B, i) == SubSeq(B, (i - 1) * N + 1, i * N)

\* C2: between calls the hasher has been given exactly floor(len/N)
\* partitions, the i-th being bytes (i-1)*N+1 .. i*N of the stream written,
\* whatever the split.
ConsumedPartitions ==
  pc = "idle" =>
    /\ Len(calls) = pos \div N
    /\ \A i \in 1..Len(calls) :
         /\ Len(calls[i]) = N
         /\ calls[i] = Partition(Written, i)

\* two partitions consumed, the second one straddling two writes
ConsumedPartitionsWitness ==
  /\ pc = "idle" /\ N >= 2 /\ Len(calls) = 2 /\ nwrites - nempty >= 3
  /\ Len(arg) < N /\ buffer = <<>>
  /\ calls[2] = Partition(Written, 2)

\* C3 (carry invariant): between calls the carry buffer is shorter than N,
\* its length is (bytes written) mod N and it holds the last that many
\* bytes of the stream written.
CarryInvariant ==
  pc = "idle" =>
    /\ Len(buffer) < N
    /\ Len(buffer) = pos % N
    /\ buffer = SubSeq(Written, pos - (pos % N) + 1, pos)

\* a carry of two or more bytes, left after a partition was consumed and
\* built up over more than one write
CarryInvariantWitness ==
  /\ pc = "idle" /\ Len(buffer) >= 2 /\ calls # <<>>
  /\ Len(arg) < Len(buffer) /\ arg # <<>>
  /\ buffer = SubSeq(Written, pos - (pos % N) + 1, pos)

\* C4: finish() changes neither the carry buffer nor the hasher, so that
\* between calls the adapter's state depends on the bytes written alone,
\* however many finish() calls were made in between.
FinishReadOnly ==
  /\ [][nfinish' = nfinish + 1 =>
          (buffer' = buffer /\ hasher' = hasher /\ calls' = calls)]_vars
  /\ [](pc = "idle" => (hasher = Mono.hasher /\ buffer = Mono.buffer))

\* a finish() was made after some write and more bytes were written after it
FinishReadOnlyWitness ==
  /\ pc = "idle" /\ nfinish = 0 /\ nwrites >= 2
  /\ result.kind = "value"
  /\ result # Hasher_finish(Hasher_default(H), <<>>)
  /\ result # finish(Self)
  /\ calls # <<>> /\ buffer # <<>>

\* C5 (idempotent finish): a finish() that follows a finish() with no
\* write in between returns the same value.
IdempotentFinish ==
  [][(nfinish >= 1 /\ nfinish' = nfinish + 1) => result' = result]_vars

\* finish() called twice in a row with a tail pending and partitions consumed
IdempotentFinishWitness ==
  /\ nfinish >= 2 /\ buffer # <<>> /\ calls # <<>>
  /\ result = finish(Self)

\* tail t followed by zeros up to n bytes
ZeroPad(t, n) == t \o [i \in 1..(n - Len(t)) |-> 0]

\* "Hello, world!" has been written to Simple, in one call or a byte per
\* call, and finish() was called
HelloWritten ==
  /\ H = "Simple" /\ Written = Hello /\ pc = "idle" /\ nfinish > 0
  /\ \/ nwrites = 1
     \/ nwrites = Len(Hello) /\ nempty = 0

\* C6 as stated: the digest of "Hello, world!" is the sum of the word of
\* the first 8 bytes and the word of the next 5 bytes zero-padded, shifted
\* left by 5.
HelloDigestWithTail ==
  HelloWritten =>
    result = Returned(shl(wrapping_add(from_le_bytes(Take(Hello, 8)),
                                       from_le_bytes(ZeroPad(Drop(Hello, 8), 8))),
                          5))

\* the bytes "Hello, w" (48 65 6C 6C 6F 2C 20 77) read as a little-endian
\* word: 0x7720_2C6F_6C6C_6548
HelloFirstWord == <<\h7720, \h2C6F, \h6C6C, \h6548>>

\* C6 as amended: in one call or a byte per call the digest of
\* "Hello, world!" is the word of the first 8 bytes alone shifted left by 5.
HelloDigest ==
  HelloWritten =>
    /\ result = Returned(shl(HelloFirstWord, 5))
    /\ result = Returned(<<\hE405, \h8DED, \h8D8C, \hA900>>)

\* "Hello, world!" written a byte per call, then finished
HelloDigestWitness ==
  /\ HelloWritten /\ nwrites = Len(Hello) /\ Len(arg) = 1
  /\ calls = <<Take(Hello, 8)>> /\ buffer = Drop(Hello, 8)

\* the wrapping sum of the words of the first n partitions of B
RECURSIVE SumWords(_, _)
SumWords(B, n) ==
  IF n = 0 THEN u64_default
  ELSE wrapping_add(SumWords(B, n - 1), from_le_bytes(Partition(B, n)))

\* C7: with Simple, finish() returns the wrapping sum of the little-endian
\* words of the complete partitions of the stream written, shifted left by
\* the length of the tail; for "Hello, world!" that is 0xE405_8DED_8D8C_A900.
SimpleDigest ==
  (H = "Simple" /\ pc = "idle" /\ nfinish > 0) =>
    /\ result = Returned(shl(SumWords(Written, pos \div N), pos % N))
    /\ Written = Hello => result = Returned(<<\hE405, \h8DED, \h8D8C, \hA900>>)

\* two partitions whose sum wraps, and a tail, written in several slices
SimpleDigestWitness ==
  /\ H = "Simple" /\ pc = "idle" /\ nfinish > 0
  /\ Len(calls) = 2 /\ buffer # <<>> /\ nwrites - nempty >= 3
  /\ result = Returned(shl(SumWords(Written, 2), Len(buffer)))
  /\ from_le_bytes(calls[1])[1] + from_le_bytes(calls[2])[1] >= Limb

\* C8: no step of write() and no finish() panics.
NoPanic ==
  /\ pc # "panic"
  /\ result.kind # "panic"
  /\ nfinish > 0 => result.kind = "value"

\* a write that drained the carry, emitted a partition and left a tail has
\* returned, and finish() returned a value
NoPanicWitness ==
  /\ pc = "idle" /\ nfinish > 0 /\ result.kind = "value"
  /\ Len(calls) >= 2 /\ buffer # <<>>
  /\ Len(arg) > N /\ Len(arg) < pos /\ (pos - Len(arg)) % N # 0

\* C9 (empty stream): before any write the buffer is empty, the hasher is
\* in its initial state, and finish() returns the hasher's digest of an
\* empty tail in that state.
EmptyStream ==
  nwrites = 0 =>
    /\ buffer = <<>>
    /\ hasher = Hasher_default(H)
    /\ nfinish > 0 => result = Hasher_finish(Hasher_default(H), <<>>)

\* finish() called on an adapter nothing was written to
EmptyStreamWitness ==
  /\ nwrites = 0 /\ nfinish > 0 /\ pc = "idle"
  /\ result.kind = "value" /\ buffer = <<>>

\* C10: no step of a write() called with an empty slice changes the carry
\* buffer or the hasher or calls the hasher.
EmptyWriteNoOp ==
  [][(pc # "idle" /\ arg = <<>>) =>
       (buffer' = buffer /\ hasher' = hasher /\ calls' = calls)]_vars

\* a write() with an empty slice has returned with bytes pending in the
\* carry buffer
EmptyWriteNoOpWitness ==
  /\ pc = "idle" /\ nwrites >= 2 /\ arg = <<>>
  /\ buffer # <<>> /\ nfinish = 0

\* C11 (boundary-exact stream): between calls, when the number of bytes
\* written is a multiple of N the carry buffer is empty, and every finish()
\* made then hands the hasher an empty tail.
BoundaryExact ==
  (pc = "idle" /\ pos % N = 0) =>
    /\ buffer = <<>>
    /\ \A i \in 1..Len(tails) : tails[i] = <<>>

\* two partitions written in three or more slices, none ending on the
\* first boundary, then finished
BoundaryExactWitness ==
  /\ pc = "idle" /\ N >= 2 /\ pos = 2 * N /\ nwrites - nempty >= 3
  /\ Len(arg) < N /\ Len(entry.buffer) > 0
  /\ nfinish >= 1 /\ tails[1] = <<>> /\ buffer = <<>>

\* the last write() was entered with k bytes pending, 1 <= k <= N-1, and
\* given exactly N-k bytes
Straddling ==
  /\ nwrites >= 1
  /\ entry.buffer # <<>>
  /\ Len(arg) = N - Len(entry.buffer)

\* C12 (chunk-boundary straddling): a write of exactly N-k bytes on a
\* carry of k bytes makes exactly one Hasher::write call, of the old carry
\* followed by the bytes written, and leaves the carry empty.
StraddlingWrite ==
  Straddling =>
    /\ Len(calls) <= entry.ncalls + 1
    /\ pc = "idle" =>
         /\ Len(calls) = entry.ncalls + 1
         /\ calls[Len(calls)] = entry.buffer \o arg
         /\ buffer = <<>>

\* a carry of N-1 bytes completed by a write of one byte
StraddlingWriteWitness ==
  /\ Straddling /\ pc = "idle" /\ N >= 3
  /\ Len(entry.buffer) = N - 1 /\ Len(arg) = 1
  /\ calls[Len(calls)] = entry.buffer \o arg
  /\ entry.buffer[1] # arg[1]

\* C13: every write() returns: each iteration of the loop shortens the
\* unconsumed slice by N, a call makes at most floor((carry + slice)/N)
\* Hasher::write calls, and every finish() made one Hasher::finish call.
WriteTerminates ==
  /\ (pc # "idle") ~> (pc = "idle")
  /\ [][(pc = "emit" /\ pc' = "emit") => Len(bytes') = Len(bytes) - N]_vars
  /\ [](Len(calls) - entry.ncalls <= (Len(entry.buffer) + Len(arg)) \div N)
  /\ [](Len(tails) = nfinish)

\* a write() that drained a carry, went round the loop and left a tail has
\* returned
WriteTerminatesWitness ==
  /\ pc = "idle" /\ nwrites >= 2 /\ Len(entry.buffer) > 0
  /\ Len(calls) - entry.ncalls >= 2
  /\ Len(calls) - entry.ncalls = (Len(entry.buffer) + Len(arg)) \div N
  /\ buffer # <<>>

\* the carry as the last write() was entered, followed by its slice
Pending == entry.buffer \o arg

\* the number of Hasher::write calls the last write() has made
Made == Len(calls) - entry.ncalls

\* C14: a write() entered with a carry of c bytes and given n bytes makes
\* floor((c+n)/N) Hasher::write calls and leaves (c+n) mod N bytes; its
\* calls are, in order, the partitions of the old carry followed by the
\* slice, so that with c > 0 the first is the old carry and the first N-c
\* bytes of the slice, made before the loop hands over anything.
SingleWrite ==
  nwrites >= 1 =>
    /\ \A i \in 1..Made : calls[entry.ncalls + i] = Partition(Pending, i)
    /\ (entry.buffer # <<>> /\ Made >= 1) =>
         calls[entry.ncalls + 1] =
           entry.buffer \o Take(arg, N - Len(entry.buffer))
    /\ (entry.buffer # <<>> /\ pc \in {"emit", "rest"}) => Made >= 1
    /\ pc = "idle" =>
         /\ Made = Len(Pending) \div N
         /\ Len(buffer) = Len(Pending) % N

\* a write() on a pending carry that completed it, handed over a partition
\* from the slice alone and kept a remainder
SingleWriteWitness ==
  /\ pc = "idle" /\ nwrites >= 2 /\ N >= 2
  /\ entry.buffer # <<>> /\ Made = 2 /\ buffer # <<>>
  /\ calls[entry.ncalls + 1] = entry.buffer \o Take(arg, N - Len(entry.buffer))
  /\ calls[entry.ncalls + 2] =
       SubSeq(arg, N - Len(entry.buffer) + 1, 2 * N - Len(entry.buffer))
  /\ buffer = Drop(arg, 2 * N - Len(entry.buffer))

\* the last write() was entered with c > 0 bytes pending and given fewer
\* than N-c bytes
Short ==
  /\ nwrites >= 1
  /\ entry.buffer # <<>>
  /\ Len(arg) < N - Len(entry.buffer)

\* C15: a write() of fewer than N-c bytes on a carry of c > 0 bytes
\* returns from step 1: it never reaches the flush, the loop or step 3,
\* calls the hasher not at all, and leaves the old carry followed by the
\* slice in the buffer.
ShortWrite ==
  Short =>
    /\ pc \in {"drain", "check", "idle"}
    /\ Made = 0
    /\ hasher = entry.hasher
    /\ pc \in {"check", "idle"} => buffer = Pending

\* such a write, of at least one byte, has returned
ShortWriteWitness ==
  /\ Short /\ pc = "idle" /\ arg # <<>>
  /\ buffer = Pending /\ entry.buffer[1] # arg[1]

\* C16: the carry buffer never holds more than N bytes and its capacity
\* stays N; it holds N bytes only in step 1, between the append and the
\* flush, and the flush hands it to the hasher and clears it.
CarryBounded ==
  /\ [](Len(buffer) <= N /\ capacity = N)
  /\ [](Len(buffer) = N => pc \in {"check", "flush"})
  /\ [][(pc = "check" /\ Len(buffer) = N) =>
          (pc' = "flush" /\ buffer' = buffer)]_vars
  /\ [][pc = "flush" =>
          (pc' = "emit" /\ calls' = Append(calls, buffer) /\ buffer' = <<>>)]_vars

\* the buffer is full, about to be flushed, with more of the slice to come
CarryBoundedWitness ==
  /\ pc = "flush" /\ N >= 2 /\ Len(buffer) = N /\ capacity = N
  /\ Len(bytes) > Len(borrowed) /\ Len(entry.buffer) = N - 1

\* C17: each finish() makes one Hasher::finish call, with the carry buffer
\* as the tail, and returns its result; every tail is shorter than N and
\* every partition given to Hasher::write has N bytes.
FinishDigest ==
  /\ Len(tails) = nfinish
  /\ \A i \in 1..Len(tails) : tails[i] = buffer /\ Len(tails[i]) < N
  /\ nfinish > 0 => result = Hasher_finish(hasher, tails[nfinish])
  /\ \A i \in 1..Len(calls) : Len(calls[i]) = N

\* finish() called with a tail of N-1 bytes after a partition was consumed
FinishDigestWitness ==
  /\ pc = "idle" /\ N >= 2 /\ nfinish = 1 /\ calls # <<>>
  /\ Len(buffer) = N - 1 /\ tails = <<buffer>>
  /\ result = Hasher_finish(hasher, buffer)

\* C18: in step 2 and step 3 the carry buffer is empty, the cursor is a
\* suffix of the slice, in step 3 shorter than N, and step 3 leaves exactly
\* that suffix in the buffer.
EmptyCarryInLoop ==
  /\ [](pc \in {"emit", "rest"} =>
          /\ buffer = <<>>
          /\ Len(bytes) <= Len(arg)
          /\ bytes = Drop(arg, Len(arg) - Len(bytes)))
  /\ [](pc = "rest" => Len(bytes) < N)
  /\ [][pc = "rest" => (pc' = "idle" /\ buffer' = bytes)]_vars

\* a write() that flushed the carry in step 1 has left the end of its
\* slice in the buffer
EmptyCarryInLoopWitness ==
  /\ pc = "idle" /\ nwrites >= 2 /\ entry.buffer # <<>> /\ Made >= 1
  /\ buffer # <<>> /\ Len(buffer) < Len(arg)
  /\ buffer = Drop(arg, Len(arg) - Len(buffer))

\* C19: an adapter made by default() starts in the state new(H::default())
\* returns, and goes on as one made by new(H::default()) does.
DefaultAsNew ==
  /\ nwrites = 0 => Self = new(Hasher_default(H))
  /\ pc = "idle" =>
       /\ hasher = Mono.hasher
       /\ buffer = Mono.buffer
       /\ capacity = Mono.capacity
       /\ calls = Mono.calls
  /\ nfinish > 0 => result = finish(Mono)

\* an adapter made by default() was written to in several slices and
\* finished
DefaultAsNewWitness ==
  /\ pc = "idle" /\ nfinish > 0 /\ nwrites - nempty >= 2
  /\ calls = Mono.calls /\ calls # <<>> /\ buffer # <<>>
  /\ result = finish(Mono)

====
